---- MODULE Spec2Model ----
(***************************************************************************)
(* TCP session decoder of swarm (src/src/proto/tcp_ssn.cc): the per-flow   *)
(* endpoint state machines (TcpSession::Node), the session (TcpSession),   *)
(* and the decoder (TcpSsnDecoder) that drives them from packets and reaps *)
(* idle sessions through the LRU table.                                    *)
(***************************************************************************)
EXTENDS Integers, Sequences, FiniteSets, TLC

VARIABLES
    ssn,        \* the TcpSession objects alive, by flow key (the domain is the keys)
    ssn_table,  \* the LRUHash: [live: entries in insertion order, exp: expired queue]
    last_ts,    \* TcpSsnDecoder::last_ts_
    out,        \* what decode wrote to the Property of the last packet
    hung,       \* decode never returned: timeout_session is still looping
    npkt,       \* the number of packets the capture source has delivered
    script,     \* the scripted packet source of SpecScript (idle elsewhere)
    hist        \* by flow key, what the session has been passed since its creation

vars == <<ssn, ssn_table, last_ts, out, hung, npkt, script, hist>>

----------------------------------------------------------------------------
(* Bounds of the model *)

\* sequence numbers, next_ack and sent_len are counted modulo SeqMod
\* (2^32 in the code)
SeqMod == 4
\* the largest payload length of a packet
MaxLen == 2
\* the capacity of the session table (0xffff in the decoder)
Capacity == 2
\* the number of packets of a run of Spec
MaxPackets == 3
\* the number of data packets that follow the handshake of SpecScript
MaxData == 2

SeqVals == 0 .. (SeqMod - 1)
Flows == 1 .. (Capacity + 1)

----------------------------------------------------------------------------
(* Program constants *)

FIN == 1
SYN == 2
RST == 4
PUSH == 8
ACK == 16
TIMEOUT == 300
max_ttl == 3600

CLOSED == "CLOSED"
LISTEN == "LISTEN"
SYN_SENT == "SYN_SENT"
SYN_RCVD == "SYN_RCVD"
ESTABLISHED == "ESTABLISHED"
CLOSING == "CLOSING"
TIME_WAIT == "TIME_WAIT"
TcpStat == {CLOSED, LISTEN, SYN_SENT, SYN_RCVD, ESTABLISHED, CLOSING, TIME_WAIT}

DIR_NIL == "NIL"
DIR_L2R == "L2R"
DIR_R2L == "R2L"

EV_DATA == "tcp_ssn.data"
P_SEG == "tcp_ssn.segment"
P_TO_SERVER == "tcp_ssn.to_server"
P_SERVER_STAT == "tcp_ssn.server_stat"
P_CLIENT_STAT == "tcp_ssn.client_stat"

nullptr == 0

----------------------------------------------------------------------------
(* Bit operations on the 8-bit flags *)

HasBit(f, b) == (f \div b) % 2 = 1

BothBit(a, b, x) == IF HasBit(a, x) /\ HasBit(b, x) THEN x ELSE 0

\* a & b on 8-bit values
BitAnd(a, b) ==
    BothBit(a, b, 1) + BothBit(a, b, 2) + BothBit(a, b, 4) + BothBit(a, b, 8)
      + BothBit(a, b, 16) + BothBit(a, b, 32) + BothBit(a, b, 64)
      + BothBit(a, b, 128)

----------------------------------------------------------------------------
(* TcpSession::Node *)

Node ==
    [base_seq |-> 0, sent_len |-> 0, next_ack |-> 0,
     avail_seq |-> FALSE, avail_ack |-> FALSE, stat |-> CLOSED,
     recv_fin |-> FALSE, recv_finack |-> FALSE, sent_finack |-> FALSE,
     updated |-> FALSE]

update_stat(n, stat) == [n EXCEPT !.stat = stat, !.updated = TRUE]

\* recv taking a SYN in TIME_WAIT as the SYN of a new connection
recv_listen_again(n, flags, seq, ack, data_len) ==
    LET n0 == [n EXCEPT !.updated = FALSE]
        n1 ==
          CASE n0.stat = CLOSED \/ n0.stat = TIME_WAIT ->
                 IF flags = SYN
                 THEN [update_stat(n0, LISTEN) EXCEPT
                          !.next_ack = (seq + 1) % SeqMod, !.avail_ack = TRUE]
                 ELSE n0
            [] n0.stat = SYN_SENT ->
                 IF flags = SYN + ACK
                 THEN [n0 EXCEPT !.next_ack = (seq + 1) % SeqMod, !.avail_ack = TRUE]
                 ELSE n0
            [] n0.stat = ESTABLISHED ->
                 IF HasBit(flags, FIN) THEN [n0 EXCEPT !.recv_fin = TRUE] ELSE n0
            [] n0.stat = CLOSING ->
                 LET a == IF HasBit(flags, FIN) THEN [n0 EXCEPT !.recv_fin = TRUE] ELSE n0
                     b == IF HasBit(flags, ACK) THEN [a EXCEPT !.recv_finack = TRUE] ELSE a
                 IN  IF b.recv_fin /\ b.recv_finack /\ b.sent_finack
                     THEN update_stat(b, TIME_WAIT)
                     ELSE b
            [] OTHER -> n0
    IN  IF n1.stat = ESTABLISHED \/ n1.stat = SYN_RCVD
        THEN [n1 EXCEPT !.next_ack = (n1.next_ack + data_len) % SeqMod]
        ELSE n1

recv(n, flags, seq, ack, data_len) ==
    LET n0 == [n EXCEPT !.updated = FALSE]
        n1 ==
          CASE n0.stat = CLOSED ->
                 IF flags = SYN
                 THEN [update_stat(n0, LISTEN) EXCEPT
                          !.next_ack = (seq + 1) % SeqMod, !.avail_ack = TRUE]
                 ELSE n0
            [] n0.stat = SYN_SENT ->
                 IF flags = SYN + ACK
                 THEN [n0 EXCEPT !.next_ack = (seq + 1) % SeqMod, !.avail_ack = TRUE]
                 ELSE n0
            [] n0.stat = ESTABLISHED ->
                 IF HasBit(flags, FIN) THEN [n0 EXCEPT !.recv_fin = TRUE] ELSE n0
            [] n0.stat = CLOSING ->
                 LET a == IF HasBit(flags, FIN) THEN [n0 EXCEPT !.recv_fin = TRUE] ELSE n0
                     b == IF HasBit(flags, ACK) THEN [a EXCEPT !.recv_finack = TRUE] ELSE a
                 IN  IF b.recv_fin /\ b.recv_finack /\ b.sent_finack
                     THEN update_stat(b, TIME_WAIT)
                     ELSE b
            [] OTHER -> n0
    IN  IF n1.stat = ESTABLISHED \/ n1.stat = SYN_RCVD
        THEN [n1 EXCEPT !.next_ack = (n1.next_ack + data_len) % SeqMod]
        ELSE n1

send(n, flags, seq, ack, data_len) ==
    LET n0 == [n EXCEPT !.updated = FALSE]
        n1 ==
          CASE n0.stat = CLOSED ->
                 IF flags = SYN
                 THEN [update_stat(n0, SYN_SENT) EXCEPT
                          !.base_seq = seq, !.avail_seq = TRUE]
                 ELSE n0
            [] n0.stat = LISTEN ->
                 IF flags = SYN + ACK
                 THEN [update_stat(n0, SYN_RCVD) EXCEPT
                          !.base_seq = seq, !.avail_seq = TRUE]
                 ELSE n0
            [] n0.stat = SYN_SENT ->
                 IF flags = ACK THEN update_stat(n0, ESTABLISHED) ELSE n0
            [] n0.stat = SYN_RCVD ->
                 IF flags = FIN
                 THEN update_stat(n0, CLOSING)
                 ELSE update_stat(n0, ESTABLISHED)
            [] n0.stat = ESTABLISHED ->
                 LET a == IF HasBit(flags, FIN) THEN update_stat(n0, CLOSING) ELSE n0
                 IN  IF a.recv_fin /\ HasBit(flags, ACK)
                     THEN [a EXCEPT !.sent_finack = TRUE]
                     ELSE a
            [] n0.stat = CLOSING ->
                 IF n0.recv_fin /\ HasBit(flags, ACK)
                 THEN [n0 EXCEPT !.sent_finack = TRUE]
                 ELSE n0
            [] OTHER -> n0
    IN  IF n1.stat = ESTABLISHED
        THEN [n1 EXCEPT !.sent_len = (n1.sent_len + data_len) % SeqMod]
        ELSE n1

\* check_seq with the comparison of the sequence number turned round
check_seq_not_beyond(n, seq, ack) ==
    /\ (~n.avail_seq \/ (n.base_seq + n.sent_len + 1) % SeqMod >= seq)
    /\ (~n.avail_ack \/ n.next_ack # 0)

check_seq(n, seq, ack) ==
    /\ (~n.avail_seq \/ (n.base_seq + n.sent_len + 1) % SeqMod <= seq)
    /\ (~n.avail_ack \/ n.next_ack # 0)

----------------------------------------------------------------------------
(* TcpSession *)

TcpSession(ts) == [ts |-> ts, server |-> Node, client |-> Node, dir |-> DIR_NIL]

to_server(s, dir) == s.dir = dir /\ s.dir # DIR_NIL

to_client(s, dir) == s.dir # dir /\ s.dir # DIR_NIL

\* is_data_available without the test of the sender's state
is_data_available_any_stat(s, dir) ==
    LET sender == IF s.dir = dir THEN s.client ELSE s.server
    IN  ~sender.updated

\* is_data_available with the test of updated the wrong way round
is_data_available_updated(s, dir) ==
    LET sender == IF s.dir = dir THEN s.client ELSE s.server
    IN  sender.updated /\ sender.stat = ESTABLISHED

is_data_available(s, dir) ==
    LET sender == IF s.dir = dir THEN s.client ELSE s.server
    IN  ~sender.updated /\ sender.stat = ESTABLISHED

\* update fixing dir before it looks at the flags
update_dir_first(s, flags, seq, ack, data_len, dir) ==
    LET f == BitAnd(flags, FIN + SYN + RST + ACK)
    IN  IF s.dir = DIR_NIL
        THEN IF f = SYN
             THEN [ssn |-> [s EXCEPT !.dir = dir,
                                     !.client = send(s.client, f, seq, ack, data_len),
                                     !.server = recv(s.server, f, seq, ack, data_len)],
                   rc |-> TRUE]
             ELSE [ssn |-> [s EXCEPT !.dir = dir], rc |-> FALSE]
        ELSE IF to_server(s, dir)
             THEN IF check_seq(s.client, seq, ack)
                  THEN [ssn |-> [s EXCEPT
                                   !.client = send(s.client, f, seq, ack, data_len),
                                   !.server = recv(s.server, f, seq, ack, data_len)],
                        rc |-> TRUE]
                  ELSE [ssn |-> s, rc |-> FALSE]
             ELSE IF check_seq(s.server, seq, ack)
                  THEN [ssn |-> [s EXCEPT
                                   !.server = send(s.server, f, seq, ack, data_len),
                                   !.client = recv(s.client, f, seq, ack, data_len)],
                        rc |-> TRUE]
                  ELSE [ssn |-> s, rc |-> FALSE]

\* update taking any packet with the SYN bit for the first of the flow
update_syn_bit(s, flags, seq, ack, data_len, dir) ==
    LET f == BitAnd(flags, FIN + SYN + RST + ACK)
    IN  IF s.dir = DIR_NIL
        THEN IF HasBit(f, SYN)
             THEN [ssn |-> [s EXCEPT !.dir = dir,
                                     !.client = send(s.client, f, seq, ack, data_len),
                                     !.server = recv(s.server, f, seq, ack, data_len)],
                   rc |-> TRUE]
             ELSE [ssn |-> s, rc |-> FALSE]
        ELSE IF to_server(s, dir)
             THEN IF check_seq(s.client, seq, ack)
                  THEN [ssn |-> [s EXCEPT
                                   !.client = send(s.client, f, seq, ack, data_len),
                                   !.server = recv(s.server, f, seq, ack, data_len)],
                        rc |-> TRUE]
                  ELSE [ssn |-> s, rc |-> FALSE]
             ELSE IF check_seq(s.server, seq, ack)
                  THEN [ssn |-> [s EXCEPT
                                   !.server = send(s.server, f, seq, ack, data_len),
                                   !.client = recv(s.client, f, seq, ack, data_len)],
                        rc |-> TRUE]
                  ELSE [ssn |-> s, rc |-> FALSE]

\* the result of update(): the session after the call and the return value
update(s, flags, seq, ack, data_len, dir) ==
    LET f == BitAnd(flags, FIN + SYN + RST + ACK)
    IN  IF s.dir = DIR_NIL
        THEN IF f = SYN
             THEN [ssn |-> [s EXCEPT !.dir = dir,
                                     !.client = send(s.client, f, seq, ack, data_len),
                                     !.server = recv(s.server, f, seq, ack, data_len)],
                   rc |-> TRUE]
             ELSE [ssn |-> s, rc |-> FALSE]
        ELSE IF to_server(s, dir)
             THEN IF check_seq(s.client, seq, ack)
                  THEN [ssn |-> [s EXCEPT
                                   !.client = send(s.client, f, seq, ack, data_len),
                                   !.server = recv(s.server, f, seq, ack, data_len)],
                        rc |-> TRUE]
                  ELSE [ssn |-> s, rc |-> FALSE]
             ELSE IF check_seq(s.server, seq, ack)
                  THEN [ssn |-> [s EXCEPT
                                   !.server = send(s.server, f, seq, ack, data_len),
                                   !.client = recv(s.client, f, seq, ack, data_len)],
                        rc |-> TRUE]
                  ELSE [ssn |-> s, rc |-> FALSE]

----------------------------------------------------------------------------
(* LRUHash, the session table (lru_hash.hpp is not part of the sources at  *)
(* hand: modelled from its contract).  An entry is a flow key with the     *)
(* ticks left until its deadline; live holds the entries in insertion      *)
(* order, exp is the expired queue.                                        *)

LRUHash == [live |-> <<>>, exp |-> <<>>]

Keys(entries) == [i \in 1 .. Len(entries) |-> entries[i].key]

MinTtl(entries) ==
    CHOOSE m \in {entries[i].ttl : i \in 1 .. Len(entries)} :
        \A i \in 1 .. Len(entries) : m <= entries[i].ttl

\* the entries whose deadline is within delta ticks, oldest bucket first,
\* in insertion order within a bucket
RECURSIVE ExpireOrder(_, _)
ExpireOrder(entries, delta) ==
    IF \A i \in 1 .. Len(entries) : entries[i].ttl > delta
    THEN <<>>
    ELSE LET m == MinTtl(entries)
         IN  SelectSeq(entries, LAMBDA e : e.ttl = m)
               \o ExpireOrder(SelectSeq(entries, LAMBDA e : e.ttl # m), delta)

prog(tb, delta) ==
    LET gone == ExpireOrder(tb.live, delta)
        kept == SelectSeq(tb.live, LAMBDA e : e.ttl > delta)
    IN  [live |-> [i \in 1 .. Len(kept) |-> [kept[i] EXCEPT !.ttl = @ - delta]],
         exp |-> tb.exp \o Keys(gone)]

\* put without the capacity cap
put_uncapped(tb, ttl, key) ==
    [live |-> Append(tb.live, [key |-> key, ttl |-> ttl]), exp |-> tb.exp]

\* the place in entries of the first entry of the oldest bucket
Oldest(entries) ==
    CHOOSE i \in 1 .. Len(entries) :
        /\ entries[i].ttl = MinTtl(entries)
        /\ \A j \in 1 .. (i - 1) : entries[j].ttl # MinTtl(entries)

Without(entries, i) ==
    [j \in 1 .. (Len(entries) - 1) |-> IF j < i THEN entries[j] ELSE entries[j + 1]]

put(tb, ttl, key) ==
    IF Len(tb.live) + 1 > Capacity
    THEN LET i == Oldest(tb.live)
         IN  [live |-> Append(Without(tb.live, i), [key |-> key, ttl |-> ttl]),
              exp |-> Append(tb.exp, tb.live[i].key)]
    ELSE [live |-> Append(tb.live, [key |-> key, ttl |-> ttl]), exp |-> tb.exp]

get(tb, key) ==
    IF \E i \in 1 .. Len(tb.live) : tb.live[i].key = key THEN key ELSE nullptr

\* the popped node (nullptr when the expired queue is empty) and the table after
pop(tb) ==
    IF tb.exp = <<>>
    THEN [node |-> nullptr, tb |-> tb]
    ELSE [node |-> Head(tb.exp), tb |-> [tb EXCEPT !.exp = Tail(tb.exp)]]

----------------------------------------------------------------------------
(* TcpSsnDecoder *)

\* outdated with <= for <
outdated_at_timeout(s, tv_sec) == s.ts + TIMEOUT <= tv_sec

\* the test of timeout_session on a popped session
outdated(s, tv_sec) == s.ts + TIMEOUT < tv_sec

\* one turn of the while loop of timeout_session; the queue is not empty
timeout_turn(tb, ss, tv_sec) ==
    LET r == pop(tb)
    IN  IF outdated(ss[r.node], tv_sec)
        THEN [ssn_table |-> r.tb,
              ssn |-> [k \in (DOMAIN ss) \ {r.node} |-> ss[k]]]
        ELSE [ssn_table |-> put(r.tb, TIMEOUT, r.node), ssn |-> ss]

\* the while loop of timeout_session.  The loop is deterministic: when it
\* comes back to a state it was in (seen), it never ends.  reaped and rearmed
\* record what the loop deleted (key and ts) and what it put back.
RECURSIVE timeout_loop(_, _, _, _, _, _)
timeout_loop(tb, ss, tv_sec, seen, reaped, rearmed) ==
    IF pop(tb).node = nullptr
    THEN [ssn_table |-> tb, ssn |-> ss, hung |-> FALSE,
          reaped |-> reaped, rearmed |-> rearmed]
    ELSE IF <<tb, ss>> \in seen
    THEN [ssn_table |-> tb, ssn |-> ss, hung |-> TRUE,
          reaped |-> reaped, rearmed |-> rearmed]
    ELSE LET k == pop(tb).node
             nx == timeout_turn(tb, ss, tv_sec)
         IN  IF k \in DOMAIN nx.ssn
             THEN timeout_loop(nx.ssn_table, nx.ssn, tv_sec,
                               seen \cup {<<tb, ss>>}, reaped, rearmed \cup {k})
             ELSE timeout_loop(nx.ssn_table, nx.ssn, tv_sec,
                               seen \cup {<<tb, ss>>},
                               reaped \cup {[key |-> k, ts |-> ss[k].ts]}, rearmed)

\* the table once the clock has been advanced, before the loop
advance(tb, last, tv_sec) ==
    IF last > 0 /\ last < tv_sec THEN prog(tb, tv_sec - last) ELSE tb

timeout_session(tb, ss, last, tv_sec) ==
    timeout_loop(advance(tb, last, tv_sec), ss, tv_sec, {}, {}, {})

\* fetch_session putting the session it finds back with a new TTL
fetch_session_touch(tb, ss, p) ==
    LET found == get(tb, p.flow) # nullptr
        rest == [tb EXCEPT !.live = SelectSeq(tb.live, LAMBDA e : e.key # p.flow)]
        tb1 == put(rest, TIMEOUT, p.flow)
        s == IF found THEN ss[p.flow] ELSE TcpSession(0)
    IN  [ssn_table |-> tb1,
         ssn |-> [k \in (DOMAIN ss) \cup {p.flow} |->
                    IF k = p.flow THEN [s EXCEPT !.ts = p.tv_sec] ELSE ss[k]],
         created |-> ~found]

fetch_session(tb, ss, p) ==
    LET found == get(tb, p.flow) # nullptr
        tb1 == IF found THEN tb ELSE put(tb, TIMEOUT, p.flow)
        s == IF found THEN ss[p.flow] ELSE TcpSession(0)
    IN  [ssn_table |-> tb1,
         ssn |-> [k \in (DOMAIN ss) \cup {p.flow} |->
                    IF k = p.flow THEN [s EXCEPT !.ts = p.tv_sec] ELSE ss[k]],
         created |-> ~found]

NoProperty ==
    [flow |-> nullptr, rc |-> FALSE, attrs |-> {}, to_server |-> FALSE, seg_len |-> 0,
     events |-> <<>>, server_stat |-> CLOSED, client_stat |-> CLOSED,
     created |-> FALSE, reaped |-> {}, rearmed |-> {}]

\* emit writing tcp_ssn.to_server before the test of update's result
emit_always_to_server(s, rc, p) ==
    LET data == rc /\ is_data_available(s, p.dir) /\ p.len > 0
    IN  [flow |-> p.flow,
         rc |-> rc,
         attrs |-> {P_TO_SERVER} \cup (IF data THEN {P_SEG} ELSE {})
                     \cup {P_SERVER_STAT, P_CLIENT_STAT},
         to_server |-> to_server(s, p.dir),
         seg_len |-> IF data THEN p.len ELSE 0,
         events |-> IF data THEN <<EV_DATA>> ELSE <<>>,
         server_stat |-> s.server.stat,
         client_stat |-> s.client.stat]

\* the Property after the emission steps of decode (to_server, seg_len and
\* events are the values written; attrs names the attributes written)
emit(s, rc, p) ==
    LET ts == to_server(s, p.dir)
        data == rc /\ is_data_available(s, p.dir) /\ p.len > 0
    IN  [flow |-> p.flow,
         rc |-> rc,
         attrs |-> (IF rc THEN {P_TO_SERVER} ELSE {})
                     \cup (IF data THEN {P_SEG} ELSE {})
                     \cup {P_SERVER_STAT, P_CLIENT_STAT},
         to_server |-> rc /\ ts,
         seg_len |-> IF data THEN p.len ELSE 0,
         events |-> IF data THEN <<EV_DATA>> ELSE <<>>,
         server_stat |-> s.server.stat,
         client_stat |-> s.client.stat]

\* decode(p) from decoder state (tb, ss, last): the state after, the Property,
\* and whether the call is still in timeout_session's loop (hung)
decode(tb, ss, last, p) ==
    LET t == timeout_session(tb, ss, last, p.tv_sec)
    IN  IF t.hung
        THEN [ssn_table |-> t.ssn_table, ssn |-> t.ssn, last_ts |-> p.tv_sec,
              out |-> NoProperty, hung |-> TRUE]
        ELSE LET fs == fetch_session(t.ssn_table, t.ssn, p)
                 u == update(fs.ssn[p.flow], p.flags, p.seq, p.ack, p.len, p.dir)
             IN  [ssn_table |-> fs.ssn_table,
                  ssn |-> [fs.ssn EXCEPT ![p.flow] = u.ssn],
                  last_ts |-> p.tv_sec,
                  out |-> emit(u.ssn, u.rc, p) @@
                            [created |-> fs.created, reaped |-> t.reaped,
                             rearmed |-> t.rearmed],
                  hung |-> FALSE]

----------------------------------------------------------------------------
(* Packets: what the Property of a packet carries into decode *)

Dirs == {DIR_L2R, DIR_R2L}

Opposite(d) == IF d = DIR_L2R THEN DIR_R2L ELSE DIR_L2R

\* the flags the capture source sends: one for each case update, send and
\* recv tell apart, and PUSH|ACK for the bits update masks
FlagVals == {SYN, SYN + ACK, ACK, PUSH + ACK, FIN, FIN + ACK, RST}

Packet(flow, dir, flags, seq, ack, len, tv_sec) ==
    [flow |-> flow, dir |-> dir, flags |-> flags, seq |-> seq, ack |-> ack,
     len |-> len, tv_sec |-> tv_sec]

\* one flow, every header: the session state machine
SsnPackets ==
    {Packet(1, d, f, q, 0, n, 1000) :
        d \in Dirs, f \in FlagVals, q \in SeqVals, n \in 0 .. MaxLen}

\* every flow, timestamps around the timeout: the session table
TimeVals == {0, 1000, 1300, 1301, 4900}

\* flow 1 also sends a packet update rejects on a fresh session
TableFlags(k) == IF k = 1 THEN {SYN, ACK} ELSE {SYN}

\* a SYN comes at any of the times, the packet before the SYN at one
TableTimes(f) == IF f = SYN THEN TimeVals ELSE {1000}

TablePackets ==
    UNION {UNION {{Packet(k, DIR_L2R, f, 0, 0, 0, t) : t \in TableTimes(f)} :
                     f \in TableFlags(k)} :
             k \in Flows}

----------------------------------------------------------------------------
(* The decoder as a state machine: one action, decode of one packet *)

\* the history of a session that has been passed nothing: syn_bit, a packet
\* with the SYN bit; syn_only, a packet whose masked flags are SYN; client and
\* server, the payload bytes of the tcp_ssn.data events of each sender
NoHist == [syn_bit |-> FALSE, syn_only |-> FALSE, client |-> 0, server |-> 0]

\* the history of a session after packet p, r the result of its decode
passed(h, r, p) ==
    LET data == IF r.out.events = <<>> THEN 0 ELSE r.out.seg_len
    IN  [syn_bit |-> h.syn_bit \/ HasBit(p.flags, SYN),
         syn_only |-> h.syn_only \/ BitAnd(p.flags, FIN + SYN + RST + ACK) = SYN,
         client |-> h.client + (IF r.out.to_server THEN data ELSE 0),
         server |-> h.server + (IF r.out.to_server THEN 0 ELSE data)]

\* the histories after decode of p with result r: of the sessions that are
\* left, the one of p restarted when decode created it
track(hs, r, p) ==
    [k \in DOMAIN r.ssn |->
        IF k = p.flow /\ ~r.hung
        THEN passed(IF r.out.created THEN NoHist ELSE hs[k], r, p)
        ELSE hs[k]]

\* the scripted source: step packets sent so far of a connection whose client
\* (on side d) has initial sequence number c and whose server has s; sent is
\* the payload the client has sent, n the length of its last packet, est
\* whether both endpoints were ESTABLISHED when the close began
NoScript ==
    [step |-> 0, c |-> 0, s |-> 0, d |-> DIR_L2R, sent |-> 0, n |-> 0, est |-> FALSE]

Init ==
    /\ ssn = <<>>
    /\ ssn_table = LRUHash
    /\ last_ts = 0
    /\ out = NoProperty
    /\ hung = FALSE
    /\ npkt = 0
    /\ script = NoScript
    /\ hist = <<>>

Decode(p) ==
    /\ ~hung
    /\ npkt' = npkt + 1
    /\ LET r == decode(ssn_table, ssn, last_ts, p)
       IN  /\ ssn' = r.ssn
           /\ ssn_table' = r.ssn_table
           /\ last_ts' = r.last_ts
           /\ out' = r.out
           /\ hung' = r.hung
           /\ hist' = track(hist, r, p)

Next ==
    /\ npkt < MaxPackets
    /\ \E p \in SsnPackets : Decode(p) /\ UNCHANGED script

Spec == Init /\ [][Next]_vars

\* enough packets to fill the table, overflow it, and come back to it
NextTable ==
    /\ npkt < Capacity + 2
    /\ \E p \in TablePackets : Decode(p) /\ UNCHANGED script

SpecTable == Init /\ [][NextTable]_vars

----------------------------------------------------------------------------
(* The scripted source: a three-way handshake, then in-order data from the *)
(* client, for every pair of initial sequence numbers and both directions  *)

HandshakePacket(sc) ==
    CASE sc.step = 0 -> Packet(1, sc.d, SYN, sc.c, 0, 0, 1000)
      [] sc.step = 1 ->
           Packet(1, Opposite(sc.d), SYN + ACK, sc.s, (sc.c + 1) % SeqMod, 0, 1000)
      [] OTHER ->
           Packet(1, sc.d, ACK, (sc.c + 1) % SeqMod, (sc.s + 1) % SeqMod, 0, 1000)

DataPacket(sc, f, n) ==
    Packet(1, sc.d, f, (sc.c + 1 + sc.sent) % SeqMod, (sc.s + 1) % SeqMod, n, 1000)

InitScript ==
    /\ ssn = <<>>
    /\ ssn_table = LRUHash
    /\ last_ts = 0
    /\ out = NoProperty
    /\ hung = FALSE
    /\ npkt = 0
    /\ hist = <<>>
    /\ script \in {[NoScript EXCEPT !.c = c, !.s = s, !.d = d] :
                     c \in SeqVals, s \in SeqVals, d \in Dirs}

Handshake ==
    /\ script.step < 3
    /\ Decode(HandshakePacket(script))
    /\ script' = [script EXCEPT !.step = @ + 1]

Data ==
    /\ script.step >= 3
    /\ script.step < 3 + MaxData
    /\ \E f \in {ACK, PUSH + ACK}, n \in 1 .. MaxLen :
          /\ Decode(DataPacket(script, f, n))
          /\ script' = [script EXCEPT !.step = @ + 1, !.n = n,
                                      !.sent = (@ + n) % SeqMod]

NextScript == Handshake \/ Data

SpecScript == InitScript /\ [][NextScript]_vars

----------------------------------------------------------------------------
(* The scripted close: the handshake, the ACK of the server that makes it  *)
(* ESTABLISHED, the half-close of each side and the last ACK, then any one *)
(* packet                                                                  *)

ServerAckPacket(sc) ==
    Packet(1, Opposite(sc.d), ACK, (sc.s + 1) % SeqMod, (sc.c + 1) % SeqMod, 0, 1000)

ClosePacket(sc) ==
    CASE sc.step = 4 ->
           Packet(1, sc.d, FIN + ACK, (sc.c + 1) % SeqMod, (sc.s + 1) % SeqMod, 0, 1000)
      [] sc.step = 5 ->
           Packet(1, Opposite(sc.d), FIN + ACK, (sc.s + 1) % SeqMod,
                  (sc.c + 2) % SeqMod, 0, 1000)
      [] OTHER ->
           Packet(1, sc.d, ACK, (sc.c + 2) % SeqMod, (sc.s + 2) % SeqMod, 0, 1000)

ServerAck ==
    /\ script.step = 3
    /\ Decode(ServerAckPacket(script))
    /\ script' = [script EXCEPT !.step = @ + 1,
                                !.est = /\ ssn'[1].client.stat = ESTABLISHED
                                        /\ ssn'[1].server.stat = ESTABLISHED]

Close ==
    /\ script.step >= 4
    /\ script.step < 7
    /\ Decode(ClosePacket(script))
    /\ script' = [script EXCEPT !.step = @ + 1]

After ==
    /\ script.step = 7
    /\ \E p \in SsnPackets :
          /\ Decode(p)
          /\ script' = [script EXCEPT !.step = @ + 1]

NextClose == Handshake \/ ServerAck \/ Close \/ After

SpecClose == InitScript /\ [][NextClose]_vars

----------------------------------------------------------------------------
(* Node::send alone: an endpoint in any state it can be in, sent one packet *)

\* what update passes to send and recv: every value of flags & (FIN|SYN|RST|ACK)
MaskedFlags == {BitAnd(f, FIN + SYN + RST + ACK) : f \in 0 .. 255}

\* the endpoints by state: base_seq is set from SYN_SENT and SYN_RCVD on,
\* payload is counted and a FIN received from ESTABLISHED on, sent_finack
\* follows recv_fin, TIME_WAIT follows both
Nodes ==
    {n \in [base_seq : SeqVals, sent_len : SeqVals, next_ack : {0},
            avail_seq : BOOLEAN, avail_ack : {FALSE}, stat : TcpStat,
            recv_fin : BOOLEAN, recv_finack : {FALSE}, sent_finack : BOOLEAN,
            updated : BOOLEAN] :
        /\ n.avail_seq <=> n.stat \notin {CLOSED, LISTEN}
        /\ ~n.avail_seq => n.base_seq = 0
        /\ n.stat \notin {ESTABLISHED, CLOSING, TIME_WAIT} =>
              (n.sent_len = 0 /\ ~n.recv_fin)
        /\ n.sent_finack => n.recv_fin
        /\ n.stat = TIME_WAIT => n.sent_finack
        /\ n.stat = CLOSED => ~n.updated}

InitSend ==
    /\ ssn \in {[k \in {1} |-> [TcpSession(0) EXCEPT !.client = n]] : n \in Nodes}
    /\ ssn_table = LRUHash
    /\ last_ts = 0
    /\ out = NoProperty
    /\ hung = FALSE
    /\ npkt = 0
    /\ script = NoScript
    /\ hist = <<>>

Send(flags, seq, data_len) ==
    /\ npkt = 0
    /\ npkt' = npkt + 1
    /\ ssn' = [ssn EXCEPT ![1].client = send(@, flags, seq, 0, data_len)]
    /\ UNCHANGED <<ssn_table, last_ts, out, hung, script, hist>>

NextSend == \E f \in MaskedFlags, q \in SeqVals, n \in 0 .. MaxLen : Send(f, q, n)

SpecSend == InitSend /\ [][NextSend]_vars

----------------------------------------------------------------------------
(* Claims *)

\* the packets the source of Spec may deliver next
NextSsnPackets == IF npkt < MaxPackets THEN SsnPackets ELSE {}

\* the packets the source of SpecTable may deliver next
NextTablePackets == IF npkt < Capacity + 2 THEN TablePackets ELSE {}

\* the session of the scripted flow and of the one flow of Spec
TheSsn == ssn[1]

NoEvent == out.events = <<>>

\* C1: the three packets of a handshake are each accepted and leave
\* (client, server) in (SYN_SENT, LISTEN), (SYN_SENT, SYN_RCVD),
\* (ESTABLISHED, SYN_RCVD), with no tcp_ssn.data event, for every pair of
\* initial sequence numbers and both orientations.
C1_Handshake ==
    /\ script.step = 1 =>
          /\ out.rc /\ NoEvent
          /\ TheSsn.client.stat = SYN_SENT /\ TheSsn.server.stat = LISTEN
    /\ script.step = 2 =>
          /\ out.rc /\ NoEvent
          /\ TheSsn.client.stat = SYN_SENT /\ TheSsn.server.stat = SYN_RCVD
    /\ script.step = 3 =>
          /\ out.rc /\ NoEvent
          /\ TheSsn.client.stat = ESTABLISHED /\ TheSsn.server.stat = SYN_RCVD

\* C2: after the handshake has left the client ESTABLISHED, a client-to-server
\* ACK packet with the next in-order sequence number and n > 0 bytes sets
\* tcp_ssn.segment to the n bytes, writes tcp_ssn.to_server = true and pushes
\* exactly one tcp_ssn.data event.
C2_DataAfterHandshake ==
    (script.step > 3 /\ TheSsn.client.stat = ESTABLISHED) =>
        /\ out.rc
        /\ out.events = <<EV_DATA>>
        /\ P_SEG \in out.attrs /\ out.seg_len = script.n /\ script.n > 0
        /\ P_TO_SERVER \in out.attrs /\ out.to_server

C2_Witness ==
    /\ script.step > 3
    /\ TheSsn.client.stat = ESTABLISHED /\ TheSsn.server.stat = SYN_RCVD
    /\ TheSsn.client.avail_ack
    /\ out.events = <<EV_DATA>> /\ out.seg_len = MaxLen


\* the state of the endpoint that sent the last packet, as decode wrote it
SenderStat == IF out.to_server THEN out.client_stat ELSE out.server_stat

\* C3 (as claimed): a packet that yields a tcp_ssn.data event has data_len > 0
\* and both the client and the server are ESTABLISHED at that moment.
C3_DataBothEstablished ==
    out.events # <<>> =>
        /\ out.seg_len > 0
        /\ out.client_stat = ESTABLISHED /\ out.server_stat = ESTABLISHED

\* C3 (amended): a packet that yields a tcp_ssn.data event has data_len > 0
\* and its sender is ESTABLISHED; the event is pushed once.
C3_DataSenderEstablished ==
    out.events # <<>> =>
        /\ out.events = <<EV_DATA>>
        /\ out.rc /\ out.seg_len > 0
        /\ SenderStat = ESTABLISHED

C3_Witness ==
    /\ out.events = <<EV_DATA>>
    /\ out.to_server
    /\ out.client_stat = ESTABLISHED /\ out.server_stat \in {LISTEN, SYN_RCVD}

\* the endpoint of session s that sends in direction dir
Sender(s, dir) == IF to_server(s, dir) THEN s.client ELSE s.server

\* what decode of p does from the present state
Decoded(p) == decode(ssn_table, ssn, last_ts, p)

\* the endpoints and the direction of session k are as they were
SameEndpoints(r, k) ==
    /\ r.ssn[k].client = ssn[k].client
    /\ r.ssn[k].server = ssn[k].server
    /\ r.ssn[k].dir = ssn[k].dir

\* a session whose direction is set
DirSet(k) == k \in DOMAIN ssn /\ ssn[k].dir # DIR_NIL

\* C4 (as claimed): once dir is set, update accepts a packet iff
\* !avail_seq || base_seq + sent_len + 1 >= seq for its sender; a rejected
\* packet changes no state and yields no event.
C4_AcceptNotBeyond ==
    \A p \in NextSsnPackets :
        DirSet(p.flow) =>
            LET n == Sender(ssn[p.flow], p.dir)
                r == Decoded(p)
            IN  /\ r.out.rc <=>
                      (~n.avail_seq \/ (n.base_seq + n.sent_len + 1) % SeqMod >= p.seq)
                /\ ~r.out.rc => (SameEndpoints(r, p.flow) /\ r.out.events = <<>>)

\* C4 (amended): once dir is set, update accepts a packet iff
\* (!avail_seq || base_seq + sent_len + 1 <= seq) && (!avail_ack || next_ack != 0)
\* for its sender, the sum taken in the width of the sequence numbers; a
\* rejected packet changes no state and yields no event.
C4_AcceptNotBefore ==
    \A p \in NextSsnPackets :
        DirSet(p.flow) =>
            LET n == Sender(ssn[p.flow], p.dir)
                r == Decoded(p)
            IN  /\ r.out.rc <=>
                      /\ (~n.avail_seq \/ (n.base_seq + n.sent_len + 1) % SeqMod <= p.seq)
                      /\ (~n.avail_ack \/ n.next_ack # 0)
                /\ ~r.out.rc => (SameEndpoints(r, p.flow) /\ r.out.events = <<>>)

\* a packet below the sender's next sequence number has just been rejected
C4_Witness ==
    /\ DirSet(1) /\ out.flow = 1 /\ ~out.rc
    /\ TheSsn.client.stat = ESTABLISHED /\ TheSsn.client.sent_len > 0
    /\ ~TheSsn.client.avail_ack \/ TheSsn.client.next_ack # 0
    /\ ~TheSsn.server.avail_ack \/ TheSsn.server.next_ack # 0

Stats == {P_SERVER_STAT, P_CLIENT_STAT}

\* C5: when update returns false, decode writes neither tcp_ssn.to_server nor
\* tcp_ssn.segment and pushes no event; tcp_ssn.server_stat and
\* tcp_ssn.client_stat are written on every call.
C5_RejectedWritesOnlyStats ==
    out.flow # nullptr =>
        /\ Stats \subseteq out.attrs
        /\ out.server_stat = ssn[out.flow].server.stat
        /\ out.client_stat = ssn[out.flow].client.stat
        /\ ~out.rc => (out.attrs = Stats /\ out.events = <<>>)

\* a packet has been rejected on a session whose direction is set
C5_Witness == out.flow = 1 /\ ~out.rc /\ DirSet(1)


\* the ticks left to entry key of table tb, which holds it
TtlOf(tb, key) ==
    LET i == CHOOSE j \in 1 .. Len(tb.live) : tb.live[j].key = key
    IN  tb.live[i].ttl

InQueue(tb, key) == \E i \in 1 .. Len(tb.exp) : tb.exp[i] = key

C7_ReapedWithinWheel ==
    (~hung /\ out.flow # nullptr) =>
        \A k \in DOMAIN ssn : ssn[k].ts + TIMEOUT + max_ttl > last_ts

\* C8: when a session has just been created by a packet at t and the next
\* packet is on another flow with tv_sec > t + 300, decode of that packet pops
\* and destroys the session, and get() for its key returns none.
C8_ReapedAfterTimeout ==
    (~hung /\ out.created) =>
        \A p \in NextTablePackets :
            (p.flow # out.flow /\ p.tv_sec > ssn[out.flow].ts + TIMEOUT) =>
                LET r == Decoded(p)
                IN  ~r.hung =>
                      /\ out.flow \notin DOMAIN r.ssn
                      /\ get(r.ssn_table, out.flow) = nullptr
                      /\ [key |-> out.flow, ts |-> last_ts] \in r.out.reaped

\* C9: the table never holds more than Capacity live sessions; when the
\* session of a new flow is created in a full table, a session of the oldest
\* bucket leaves the table for the expired queue, timed out or not.
C9_CapacityCap ==
    /\ Len(ssn_table.live) <= Capacity
    /\ \A p \in NextTablePackets :
          LET t == timeout_session(ssn_table, ssn, last_ts, p.tv_sec)
              r == Decoded(p)
          IN  (~hung /\ ~t.hung /\ get(t.ssn_table, p.flow) = nullptr
                 /\ Len(t.ssn_table.live) = Capacity) =>
                  LET k == t.ssn_table.live[Oldest(t.ssn_table.live)].key
                  IN  /\ Len(r.ssn_table.live) = Capacity
                      /\ get(r.ssn_table, p.flow) = p.flow
                      /\ TtlOf(t.ssn_table, k) = MinTtl(t.ssn_table.live)
                      /\ get(r.ssn_table, k) = nullptr
                      /\ InQueue(r.ssn_table, k)
                      /\ k \in DOMAIN r.ssn

\* a session that has not timed out waits in the expired queue of a full
\* table, forced out by the creation of another
C9_Witness ==
    /\ ~hung /\ out.created
    /\ Len(ssn_table.live) <= Capacity
    /\ \E k \in DOMAIN ssn :
          /\ InQueue(ssn_table, k) /\ get(ssn_table, k) = nullptr
          /\ ~outdated(ssn[k], last_ts)

\* C10: every call of decode returns: the loop of timeout_session ends.
C10_DecodeReturns == ~hung

\* the flags update looks at
Masked(flags) == BitAnd(flags, FIN + SYN + RST + ACK)

\* C11 (as claimed): dir is NIL iff no packet with the SYN bit set has been
\* passed to update on the flow; while dir is NIL every packet without the SYN
\* bit is rejected, and the first packet with the SYN bit fixes dir to its
\* direction.
C11_DirNilIffNoSynBit ==
    /\ \A k \in DOMAIN ssn : (ssn[k].dir = DIR_NIL) <=> ~hist[k].syn_bit
    /\ \A p \in NextSsnPackets :
          (p.flow \in DOMAIN ssn /\ ssn[p.flow].dir = DIR_NIL) =>
              LET r == Decoded(p)
              IN  IF HasBit(p.flags, SYN)
                  THEN r.ssn[p.flow].dir = p.dir
                  ELSE ~r.out.rc /\ r.ssn[p.flow].dir = DIR_NIL

\* C11 (amended): dir is NIL iff no packet whose masked flags are exactly SYN
\* has been passed to update on the flow; while dir is NIL every other packet
\* is rejected and leaves dir NIL, and the first packet whose masked flags are
\* SYN is accepted and fixes dir to its direction, for good.
C11_DirNilIffNoSyn ==
    /\ \A k \in DOMAIN ssn : (ssn[k].dir = DIR_NIL) <=> ~hist[k].syn_only
    /\ \A p \in NextSsnPackets :
          p.flow \in DOMAIN ssn =>
              LET r == Decoded(p)
                  s == ssn[p.flow]
              IN  /\ (s.dir = DIR_NIL /\ Masked(p.flags) = SYN) =>
                        (r.out.rc /\ r.ssn[p.flow].dir = p.dir)
                  /\ (s.dir = DIR_NIL /\ Masked(p.flags) # SYN) =>
                        (~r.out.rc /\ r.ssn[p.flow].dir = DIR_NIL)
                  /\ s.dir # DIR_NIL => r.ssn[p.flow].dir = s.dir

\* a SYN|ACK has been passed to update and dir is still NIL
C11_Witness ==
    /\ 1 \in DOMAIN ssn /\ TheSsn.dir = DIR_NIL
    /\ hist[1].syn_bit /\ out.flow = 1 /\ ~out.rc

\* C12: no decode makes the sent_len of an endpoint smaller.
C12_SentLenMonotone ==
    \A p \in NextSsnPackets :
        p.flow \in DOMAIN ssn =>
            LET r == Decoded(p)
            IN  /\ r.ssn[p.flow].client.sent_len >= ssn[p.flow].client.sent_len
                /\ r.ssn[p.flow].server.sent_len >= ssn[p.flow].server.sent_len

\* C13: no decode makes the ts of a session that stays in the table smaller,
\* whatever the tv_sec of the packet.
C13_TsMonotone ==
    \A p \in NextTablePackets :
        LET r == Decoded(p)
        IN  \A k \in DOMAIN ssn \cap DOMAIN r.ssn :
                (~r.hung /\ ~(k = p.flow /\ r.out.created)) => r.ssn[k].ts >= ssn[k].ts

\* C14: from both endpoints ESTABLISHED, the client's FIN|ACK, the server's
\* FIN|ACK and the client's ACK, in order, are each accepted; the client goes
\* to CLOSING on the first, the server to CLOSING on the second and to
\* TIME_WAIT on the third.
C14_HalfClose ==
    script.est =>
        /\ script.step = 5 =>
              /\ out.rc
              /\ TheSsn.client.stat = CLOSING /\ TheSsn.server.stat = ESTABLISHED
        /\ script.step = 6 =>
              /\ out.rc
              /\ TheSsn.client.stat = CLOSING /\ TheSsn.server.stat = CLOSING
        /\ script.step = 7 =>
              /\ out.rc
              /\ TheSsn.server.stat = TIME_WAIT

\* C15: a call of update that returns false changes no field of either
\* endpoint and not dir, on a session in the table and on a fresh one.
C15_RejectedUpdateChangesNothing ==
    \A p \in NextSsnPackets :
        \A s \in {ssn[k] : k \in DOMAIN ssn} \cup {TcpSession(p.tv_sec)} :
            LET u == update(s, p.flags, p.seq, p.ack, p.len, p.dir)
            IN  ~u.rc =>
                  /\ u.ssn.client = s.client
                  /\ u.ssn.server = s.server
                  /\ u.ssn.dir = s.dir

\* a packet has been rejected before any SYN, and the session is as created
C15_Witness ==
    /\ out.flow = 1 /\ ~out.rc /\ ~hist[1].syn_bit
    /\ TheSsn.dir = DIR_NIL /\ TheSsn.client = Node /\ TheSsn.server = Node

\* C16: decode of a packet that update rejects leaves the sessions of the
\* table, their ts, their expiration and their endpoints as timeout_session
\* of that packet's time alone leaves them.
C16_RejectedLeavesNoTrace ==
    \A p \in NextTablePackets :
        LET t == timeout_session(ssn_table, ssn, last_ts, p.tv_sec)
            r == Decoded(p)
        IN  (~r.hung /\ ~r.out.rc) =>
              /\ r.ssn = t.ssn
              /\ r.ssn_table = t.ssn_table

\* the send transition table: the state after, by the state before and flags
SendTableStat(n, flags) ==
    CASE n.stat = CLOSED /\ flags = SYN -> SYN_SENT
      [] n.stat = LISTEN /\ flags = SYN + ACK -> SYN_RCVD
      [] n.stat = SYN_SENT /\ flags = ACK -> ESTABLISHED
      [] n.stat = SYN_RCVD /\ HasBit(flags, FIN) -> CLOSING
      [] n.stat = SYN_RCVD /\ ~HasBit(flags, FIN) -> ESTABLISHED
      [] n.stat = ESTABLISHED /\ HasBit(flags, FIN) -> CLOSING
      [] OTHER -> n.stat

\* the send transition table: the endpoint after send(flags, seq, ack, data_len)
SendTable(n, flags, seq, data_len) ==
    LET to == SendTableStat(n, flags)
        setseq == (n.stat = CLOSED /\ flags = SYN) \/ (n.stat = LISTEN /\ flags = SYN + ACK)
        finack == n.stat \in {ESTABLISHED, CLOSING} /\ n.recv_fin /\ HasBit(flags, ACK)
    IN  [n EXCEPT !.stat = to,
                  !.updated = (to # n.stat),
                  !.base_seq = IF setseq THEN seq ELSE @,
                  !.avail_seq = IF setseq THEN TRUE ELSE @,
                  !.sent_finack = IF finack THEN TRUE ELSE @,
                  !.sent_len = IF to = ESTABLISHED THEN (@ + data_len) % SeqMod ELSE @]

\* C17: send does what the send transition table says, for every state of the
\* endpoint and every combination of FIN, SYN, RST and ACK: from SYN_RCVD the
\* FIN bit leads to CLOSING, anything else to ESTABLISHED.
C17_SendIsTable ==
    \A f \in MaskedFlags, q \in SeqVals, n \in 0 .. MaxLen :
        send(ssn[1].client, f, q, 0, n) = SendTable(ssn[1].client, f, q, n)

\* C18 (as claimed): a packet of an existing flow resets the expiration of its
\* session in the table to TIMEOUT from the table's present time.
C18_TouchResetsTtl ==
    (~hung /\ out.flow # nullptr /\ ~out.created) =>
        /\ get(ssn_table, out.flow) = out.flow
        /\ TtlOf(ssn_table, out.flow) = TIMEOUT

\* C18 (amended): a packet of an existing flow sets the ts of its session to
\* the packet's tv_sec and leaves the table as timeout_session left it: the
\* expiration of the session is not reset, and is at most TIMEOUT away.
C18_TouchSetsTsOnly ==
    /\ \A i \in 1 .. Len(ssn_table.live) : ssn_table.live[i].ttl <= TIMEOUT
    /\ \A p \in NextTablePackets :
          LET t == timeout_session(ssn_table, ssn, last_ts, p.tv_sec)
              r == Decoded(p)
          IN  (~t.hung /\ get(t.ssn_table, p.flow) # nullptr) =>
                /\ ~r.out.created
                /\ r.ssn_table = t.ssn_table
                /\ r.ssn[p.flow].ts = p.tv_sec

\* a packet of an existing flow has been decoded and the session expires in
\* the table earlier than TIMEOUT after it
C18_Witness ==
    /\ ~hung /\ out.flow # nullptr /\ ~out.created
    /\ get(ssn_table, out.flow) = out.flow
    /\ ssn[out.flow].ts = last_ts
    /\ TtlOf(ssn_table, out.flow) < TIMEOUT

\* the states of a client and of a server, and their order
ClientStats == {CLOSED, SYN_SENT, ESTABLISHED, CLOSING, TIME_WAIT}

ServerStats == {CLOSED, LISTEN, SYN_RCVD, ESTABLISHED, CLOSING, TIME_WAIT}

Rank(stat) ==
    CASE stat = CLOSED -> 0
      [] stat \in {LISTEN, SYN_SENT} -> 1
      [] stat = SYN_RCVD -> 2
      [] stat = ESTABLISHED -> 3
      [] stat = CLOSING -> 4
      [] OTHER -> 5

\* C19: the client is in a client's state and the server in a server's; the
\* client is CLOSED exactly when the server is; no packet moves an endpoint
\* to an earlier state, and none moves it out of TIME_WAIT.
C19_RoleConsistent ==
    \A k \in DOMAIN ssn :
        /\ ssn[k].client.stat \in ClientStats
        /\ ssn[k].server.stat \in ServerStats
        /\ (ssn[k].client.stat = CLOSED) <=> (ssn[k].server.stat = CLOSED)
        /\ \A p \in SsnPackets :
              p.flow = k =>
                  LET r == Decoded(p).ssn[k]
                  IN  /\ Rank(r.client.stat) >= Rank(ssn[k].client.stat)
                      /\ Rank(r.server.stat) >= Rank(ssn[k].server.stat)
                      /\ ssn[k].client.stat = TIME_WAIT => r.client.stat = TIME_WAIT
                      /\ ssn[k].server.stat = TIME_WAIT => r.server.stat = TIME_WAIT

\* both endpoints are in TIME_WAIT after a packet that followed the close
C19_Witness ==
    /\ script.step > 7 /\ out.rc
    /\ TheSsn.client.stat = TIME_WAIT /\ TheSsn.server.stat = TIME_WAIT

\* C20: the sent_len of each endpoint is the sum of the segment lengths of the
\* tcp_ssn.data events pushed for the packets it sent (the sum taken in the
\* width of sent_len).
C20_SentLenIsDelivered ==
    \A k \in DOMAIN ssn :
        /\ ssn[k].client.sent_len = hist[k].client % SeqMod
        /\ ssn[k].server.sent_len = hist[k].server % SeqMod

====
